---- MODULE Spec2Model ----
(***************************************************************************)
(* hubspot-sync: one run of sync.py's main() against the HubSpot marketing *)
(* event store, the FIRST season API and the FIRST event search index.     *)
(*                                                                         *)
(* Python values are modelled as follows.  A dict is a TLA+ function whose *)
(* DOMAIN is the dict's key set, so a missing key is a key outside DOMAIN. *)
(* A list is a sequence.  An Optional value is a record tagged by `kind`.  *)
(* An ISO date string is a sequence of one-character strings.  An epoch    *)
(* millisecond count does not fit TLC's 32-bit integers and is kept as the *)
(* pair (days since 1970-01-01, milliseconds within the day).              *)
(***************************************************************************)
EXTENDS Integers, Sequences, FiniteSets, TLC

\* ------------------------------------------------------------------ bounds
MaxStore == 2       \* destination records present before the run (Spec)
MaxBatch == 2       \* hits in one search response (Spec)
RunsMaxStore == 1   \* destination records present before the first run (SpecRuns)
RunsMaxBatch == 2   \* hits in one search response (SpecRuns)

\* ------------------------------------------------------- python built-ins
Digit(d) ==
  CASE d = 0 -> "0" [] d = 1 -> "1" [] d = 2 -> "2" [] d = 3 -> "3" [] d = 4 -> "4"
    [] d = 5 -> "5" [] d = 6 -> "6" [] d = 7 -> "7" [] d = 8 -> "8" [] d = 9 -> "9"

RECURSIVE StrNat(_)
StrNat(n) == IF n < 10 THEN Digit(n) ELSE StrNat(n \div 10) \o Digit(n % 10)

\* str(x) of an int
Str(n) == IF n < 0 THEN "-" \o StrNat(0 - n) ELSE StrNat(n)

DigitChars == {"0", "1", "2", "3", "4", "5", "6", "7", "8", "9"}

DigitVal(c) ==
  CASE c = "0" -> 0 [] c = "1" -> 1 [] c = "2" -> 2 [] c = "3" -> 3 [] c = "4" -> 4
    [] c = "5" -> 5 [] c = "6" -> 6 [] c = "7" -> 7 [] c = "8" -> 8 [] c = "9" -> 9

AllDigits(s, from, to) == \A i \in from..to : s[i] \in DigitChars

RECURSIVE Num(_, _, _)
Num(s, from, to) ==
  IF to < from THEN 0 ELSE Num(s, from, to - 1) * 10 + DigitVal(s[to])

IsLeap(y) == (y % 4 = 0 /\ y % 100 # 0) \/ y % 400 = 0

DaysInMonth(y, m) ==
  IF m = 2 THEN (IF IsLeap(y) THEN 29 ELSE 28)
  ELSE IF m \in {4, 6, 9, 11} THEN 30 ELSE 31

\* datetime.fromisoformat accepts YYYY-MM-DD, optionally followed by a
\* separator character and HH:MM:SS; anything else raises ValueError.
IsoDateOk(s) ==
  /\ Len(s) >= 10
  /\ AllDigits(s, 1, 4) /\ s[5] = "-" /\ AllDigits(s, 6, 7) /\ s[8] = "-"
  /\ AllDigits(s, 9, 10)
  /\ Num(s, 1, 4) >= 1
  /\ Num(s, 6, 7) \in 1..12
  /\ Num(s, 9, 10) \in 1..DaysInMonth(Num(s, 1, 4), Num(s, 6, 7))

IsoTimeOk(s) ==
  \/ Len(s) = 10
  \/ /\ Len(s) = 19
     /\ AllDigits(s, 12, 13) /\ s[14] = ":" /\ AllDigits(s, 15, 16) /\ s[17] = ":"
     /\ AllDigits(s, 18, 19)
     /\ Num(s, 12, 13) \in 0..23 /\ Num(s, 15, 16) \in 0..59 /\ Num(s, 18, 19) \in 0..59

IsoOk(s) == IsoDateOk(s) /\ IsoTimeOk(s)

\* days since 1970-01-01 of a civil date (proleptic Gregorian calendar)
DaysFromCivil(y0, m, d) ==
  LET y == IF m <= 2 THEN y0 - 1 ELSE y0
      era == y \div 400
      yoe == y - era * 400
      doy == (153 * (IF m > 2 THEN m - 3 ELSE m + 9) + 2) \div 5 + d - 1
      doe == yoe * 365 + yoe \div 4 - yoe \div 100 + doy
  IN era * 146097 + doe - 719468

\* int(datetime.fromisoformat(s).timestamp() * 1000) of a naive date/time
\* read in UTC
EpochMillis(s) ==
  [days |-> DaysFromCivil(Num(s, 1, 4), Num(s, 6, 7), Num(s, 9, 10)),
   ms |-> IF Len(s) = 10 THEN 0
          ELSE (Num(s, 12, 13) * 3600 + Num(s, 15, 16) * 60 + Num(s, 18, 19)) * 1000]

\* list.pop(0) in place of list.remove(x)
RemoveFirst_PopHead(s, x) == IF s = <<>> THEN <<>> ELSE Tail(s)

\* list.remove(x): drops the first element equal to x
RECURSIVE RemoveFirst(_, _)
RemoveFirst(s, x) ==
  IF s = <<>> THEN <<>>
  ELSE IF Head(s) = x THEN Tail(s)
  ELSE <<Head(s)>> \o RemoveFirst(Tail(s), x)

\* sequences over S of length at most n
SeqUpTo(S, n) == UNION {[1..k -> S] : k \in 0..n}

\* ------------------------------------------------------ the search index
\* FIRST_PROGRAMS' flagship program, the one process_events and the search
\* query single out
FRC == "FRC"

DateMar1 == <<"2", "0", "2", "5", "-", "0", "3", "-", "0", "1">>
DateMar3 == <<"2", "0", "2", "5", "-", "0", "3", "-", "0", "3",
              "T", "1", "8", ":", "3", "0", ":", "0", "0">>
DateTbd == <<"T", "B", "D">>

RawBase ==
  [event_type |-> FRC, event_season |-> 2025, event_code |-> "ALHU",
   event_name |-> "Rocket City Regional", date_start |-> DateMar1,
   date_end |-> DateMar3, event_venue |-> "VBC", event_city |-> "Huntsville",
   event_postalcode |-> "35801", event_address1 |-> "700 Monroe St"]

\* a dict without key k
Without(e, k) == [x \in DOMAIN e \ {k} |-> e[x]]

\* the documents the index may hold for Alabama: a regional, a second document
\* with the regional's (type, season, code) and another name, a non-flagship
\* championship of the season before, a document without date_start, one whose
\* date_end is not an ISO string, and the regional of the season before
RawPool ==
  { RawBase,
    [RawBase EXCEPT !.event_name = "Rocket City Regional (moved)"],
    [RawBase EXCEPT !.event_type = "FTC", !.event_season = 2024,
                    !.event_code = "ALCMP", !.event_name = "Alabama Championship"],
    Without([RawBase EXCEPT !.event_code = "ALTU", !.event_name = "Tuscaloosa"],
            "date_start"),
    [RawBase EXCEPT !.event_type = "FTC", !.event_season = 2024,
                    !.event_code = "ALBH", !.date_end = DateTbd],
    [RawBase EXCEPT !.event_season = 2024, !.event_name = "Rocket City 2024"] }

\* the bool query get_elastic_search_events sends: flagship documents of
\* frc_season, other documents of frc_season - 1
EsQueryMatches(e, frc_season) ==
  \/ e.event_season = frc_season /\ e.event_type = FRC
  \/ e.event_season = frc_season - 1 /\ e.event_type # FRC

\* the keys the list comprehension of get_elastic_search_events subscripts
RawKeys ==
  {"event_type", "event_season", "event_code", "event_name", "date_start",
   "date_end", "event_venue", "event_city", "event_postalcode", "event_address1"}

\* the comprehension's element expression evaluates without raising
\* (no KeyError, no ValueError from fromisoformat)
MapsCleanly(e) ==
  /\ RawKeys \subseteq DOMAIN e
  /\ IsoOk(e.date_start)
  /\ IsoOk(e.date_end)

\* the element expression of the comprehension: one HubSpot payload
MapEvent(e) ==
  [eventOrganizer |-> "FIRST in Alabama",
   externalAccountId |-> e.event_type \o Str(e.event_season) \o e.event_code,
   externalEventId |-> e.event_type \o Str(e.event_season) \o e.event_code,
   eventName |-> e.event_name,
   eventType |-> e.event_type,
   startDateTime |-> EpochMillis(e.date_start),
   endDateTime |-> EpochMillis(e.date_end),
   customProperties |->
     << [name |-> "event_code", value |-> e.event_code],
        [name |-> "event_venue", value |-> e.event_venue],
        [name |-> "event_season_year", value |-> e.event_season],
        [name |-> "event_volunteer_url", value |-> ""],
        [name |-> "event_city", value |-> e.event_city],
        [name |-> "event_postal_code", value |-> e.event_postalcode],
        [name |-> "event_address", value |-> e.event_address1] >>]

\* get_elastic_search_events on a response: the comprehension raises on the
\* first element that does not map, and then the function returns nothing
GetElasticSearchEvents(hits) ==
  IF \A i \in 1..Len(hits) : MapsCleanly(hits[i])
  THEN [kind |-> "ok", events |-> [i \in 1..Len(hits) |-> MapEvent(hits[i])]]
  ELSE [kind |-> "raise"]

\* --------------------------------------------------- the destination store
\* the custom property bag of a marketing event: absent, or a list of entries
NoProperties == [kind |-> "none"]
Properties(items) == [kind |-> "list", items |-> items]

\* None and a present value, as get_custom_property returns them
None == [kind |-> "none"]
Some(v) == [kind |-> "some", value |-> v]

SeasonAndCode(season, code) ==
  Properties(<< [name |-> "event_code", value |-> code],
                [name |-> "event_season_year", value |-> season] >>)

DestBase ==
  [external_event_id |-> "FRC2025ALHU", event_type |-> FRC,
   event_organizer |-> "Rocket City Robotics", event_name |-> "Regional (draft)",
   custom_properties |-> SeasonAndCode("2025", "ALHU")]

\* the marketing events the store may hold before a run, object_id aside:
\* the flagship regional of 2025 and of 2024, a non-flagship championship
\* tagged 2024 and tagged 2025, an event entered by hand whose external id is
\* not built from its properties, one carrying event_season_year twice, and
\* one without a property bag
DestPool ==
  { DestBase,
    [DestBase EXCEPT !.external_event_id = "FRC2024ALHU",
                     !.custom_properties = SeasonAndCode("2024", "ALHU")],
    [DestBase EXCEPT !.external_event_id = "FTC2024ALCMP", !.event_type = "FTC",
                     !.event_organizer = "FIRST in Alabama",
                     !.custom_properties = SeasonAndCode("2024", "ALCMP")],
    [DestBase EXCEPT !.external_event_id = "FTC2025ALCMP", !.event_type = "FTC",
                     !.custom_properties = SeasonAndCode("2025", "ALCMP")],
    [DestBase EXCEPT !.external_event_id = "kickoff-by-hand"],
    [DestBase EXCEPT !.custom_properties =
       Properties(<< [name |-> "event_code", value |-> "ALHU"],
                     [name |-> "event_season_year", value |-> "2025"],
                     [name |-> "event_season_year", value |-> "2025"] >>)],
    [DestBase EXCEPT !.custom_properties = NoProperties] }

\* object ids are the store's: the i-th record it ever made carries 100 + i
ObjectIdAt(i) == 100 + i

WithId(t, id) ==
  [object_id |-> id, external_event_id |-> t.external_event_id,
   event_type |-> t.event_type, event_organizer |-> t.event_organizer,
   event_name |-> t.event_name, custom_properties |-> t.custom_properties]

InitialStores(pool, n) ==
  { [i \in 1..Len(ts) |-> WithId(ts[i], ObjectIdAt(i))] :
      ts \in SeqUpTo(pool, n) }

\* what the store keeps of a payload's custom properties: every value as text
StoredProperties(cps) ==
  Properties([i \in 1..Len(cps) |->
    [name |-> cps[i].name,
     value |-> IF cps[i].name = "event_season_year"
               THEN Str(cps[i].value) ELSE cps[i].value]])

Stored(p, id) ==
  [object_id |-> id, external_event_id |-> p.externalEventId,
   event_type |-> p.eventType, event_organizer |-> p.eventOrganizer,
   event_name |-> p.eventName,
   custom_properties |-> StoredProperties(p.customProperties)]

\* a successful batch upsert: a payload that names an object id replaces that
\* record's content, any other payload becomes a new record under the next id
\* the store hands out
RECURSIVE StoreUpsert(_, _)
StoreUpsert(records, inputs) ==
  IF inputs = <<>> THEN records
  ELSE LET p == Head(inputs) IN
    IF "objectId" \in DOMAIN p
    THEN StoreUpsert(
           [i \in 1..Len(records) |->
              IF records[i].object_id = p.objectId
              THEN Stored(p, p.objectId) ELSE records[i]],
           Tail(inputs))
    ELSE StoreUpsert(Append(records, Stored(p, ObjectIdAt(Len(records) + 1))),
                     Tail(inputs))

\* get_known_events: the pages of the listing, concatenated
GetKnownEvents(records) == records

\* ------------------------------------------------------------ sync.py core
get_custom_property(custom_properties, key) ==
  IF custom_properties.kind = "none" THEN None
  ELSE LET named(entry) == entry.name = key
           hits == SelectSeq(custom_properties.items, named)
           match == [i \in 1..Len(hits) |-> hits[i].value]
       IN IF Len(match) # 1 THEN None ELSE Some(match[1])

\* the window with the flagship's year applied to every program
InSeasonWindow_OneYear(event, frc_season_year) ==
  get_custom_property(event.custom_properties, "event_season_year")
    = Some(Str(frc_season_year))

\* the window with the stored text compared to the int, which never agree
InSeasonWindow_NoStr(event, frc_season_year) == FALSE

\* the condition of the comprehension that builds existing_hubspot_events
InSeasonWindow(event, frc_season_year) ==
  \/ /\ event.event_type = FRC
     /\ get_custom_property(event.custom_properties, "event_season_year")
          = Some(Str(frc_season_year))
  \/ /\ event.event_type # FRC
     /\ get_custom_property(event.custom_properties, "event_season_year")
          = Some(Str(frc_season_year - 1))

ExistingHubspotEvents(hubspot_events, frc_season_year) ==
  LET keep(event) == InSeasonWindow(event, frc_season_year)
  IN SelectSeq(hubspot_events, keep)

\* match: the source events carrying the existing event's external id
MatchesOf(first_events, existing_event) ==
  LET same(event) == event.externalEventId = existing_event.external_event_id
  IN SelectSeq(first_events, same)

\* the update payload with the source's organizer left in place
UpdatePayload_SourceOrganizer(source_event, existing_event) ==
  [k \in DOMAIN source_event \cup {"objectId"} |->
     CASE k = "externalEventId" -> existing_event.external_event_id
       [] k = "objectId" -> existing_event.object_id
       [] OTHER -> source_event[k]]

\* the payload of an update: a copy of the matched source event with the
\* existing event's external id, object id and organizer
UpdatePayload(source_event, existing_event) ==
  [k \in DOMAIN source_event \cup {"objectId"} |->
     CASE k = "externalEventId" -> existing_event.external_event_id
       [] k = "objectId" -> existing_event.object_id
       [] k = "eventOrganizer" -> existing_event.event_organizer
       [] OTHER -> source_event[k]]

\* the pairing without line 134: the matched event stays in first_events
PairOne_NoRemove(acc, existing_event, match) ==
  [first_events |-> acc.first_events,
   events_to_update |-> Append(acc.events_to_update,
                               UpdatePayload(match[1], existing_event)),
   printed |-> acc.printed]

\* what the loop does with one existing event that has exactly one match
PairOne(acc, existing_event, match) ==
  [first_events |-> RemoveFirst(acc.first_events, match[1]),
   events_to_update |-> Append(acc.events_to_update,
                               UpdatePayload(match[1], existing_event)),
   printed |-> acc.printed]

\* several matches treated as a match on the first of them
SkipAmbiguous_TakeFirst(acc, existing_event) ==
  PairOne(acc, existing_event, MatchesOf(acc.first_events, existing_event))

\* what the loop does with one existing event that has several matches
SkipAmbiguous(acc, existing_event) ==
  [first_events |-> acc.first_events,
   events_to_update |-> acc.events_to_update,
   printed |-> Append(acc.printed,
                      [msg |-> "Too many matches found for",
                       arg |-> existing_event.external_event_id])]

\* the loop over existing_hubspot_events, from its i-th element on
RECURSIVE UpdateLoop(_, _, _)
UpdateLoop(existing, i, acc) ==
  IF i > Len(existing) THEN acc
  ELSE LET match == MatchesOf(acc.first_events, existing[i]) IN
    IF Len(match) = 0 THEN UpdateLoop(existing, i + 1, acc)
    ELSE IF Len(match) > 1
    THEN UpdateLoop(existing, i + 1, SkipAmbiguous(acc, existing[i]))
    ELSE UpdateLoop(existing, i + 1, PairOne(acc, existing[i], match))

\* process_events up to the point where all_events is built
Plan(first_events_in, hubspot_events_in, frc_season_year) ==
  LET existing == ExistingHubspotEvents(hubspot_events_in, frc_season_year)
      out == UpdateLoop(existing, 1,
               [first_events |-> first_events_in, events_to_update |-> <<>>,
                printed |-> <<>>])
  IN [existing_hubspot_events |-> existing,
      first_events |-> out.first_events,
      events_to_update |-> out.events_to_update,
      events_to_create |-> out.first_events,
      all_events |-> out.events_to_update \o out.first_events,
      printed |-> out.printed]

\* the upsert call made whatever the list holds
ShouldUpsert_Always(all_events) == TRUE

\* the guard of line 140
ShouldUpsert(all_events) == Len(all_events) > 0

\* the ApiException left uncaught: main ends with a traceback
OnApiException_Uncaught ==
  [caught |-> FALSE,
   printed |-> << [msg |-> "Traceback", arg |-> "ApiException"] >>]

\* lines 144-145: the ApiException of the upsert call is caught and printed,
\* and process_events returns normally
OnApiException ==
  [caught |-> TRUE,
   printed |-> << [msg |-> "Exception when calling batch_api->update",
                   arg |-> "ApiException"] >>]

\* ------------------------------------------------------------ the program
VARIABLES
  pc,                      \* where main is: a step, or how it ended
  run,                     \* "first" or "second" of two consecutive runs
  store,                   \* the marketing events HubSpot holds
  hubspot_events,          \* main: the listing get_known_events returned
  frc_season,              \* main: seasons['FRC']
  response,                \* the hits of the search response
  first_events,            \* main: the list process_events works on
  existing_hubspot_events, \* process_events: the in-window existing events
  events_to_update,        \* process_events
  events_to_create,        \* process_events
  upsert_calls,            \* each batch_api.upsert call of the run: inputs, outcome
  console,                 \* what the run printed, an uncaught traceback included
  earlier                  \* the first run's response, upsert calls and store

vars ==
  <<pc, run, store, hubspot_events, frc_season, response, first_events,
    existing_hubspot_events, events_to_update, events_to_create, upsert_calls,
    console, earlier>>

Say(msg, arg) == [msg |-> msg, arg |-> arg]

\* the locals of a run before main has assigned them
Fresh ==
  /\ pc = "token"
  /\ hubspot_events = <<>>
  /\ frc_season = 0
  /\ response = <<>>
  /\ first_events = <<>>
  /\ existing_hubspot_events = <<>>
  /\ events_to_update = <<>>
  /\ events_to_create = <<>>
  /\ upsert_calls = <<>>
  /\ console = <<>>

InitWith(stores) ==
  /\ Fresh
  /\ run = "first"
  /\ store \in stores
  /\ earlier = [ran |-> FALSE]

Init == InitWith(InitialStores(DestPool, MaxStore))

process_locals == <<existing_hubspot_events, events_to_update, events_to_create>>

\* main, lines 269-276: get_hubspot_api_token returns the secret or None
LoadToken ==
  /\ pc = "token"
  /\ \E api_token \in {None, Some("secret")} :
       IF api_token = None
       THEN /\ console' = console \o << Say("Sync Begin", ""),
                                       Say("Could not retrieve HubSpot API token", "") >>
            /\ pc' = "aborted"
       ELSE /\ console' = Append(console, Say("Sync Begin", ""))
            /\ pc' = "listing"
  /\ UNCHANGED <<run, store, hubspot_events, frc_season, response, first_events,
                 process_locals, upsert_calls, earlier>>

\* main, line 277: get_known_events returns the listing, or get_all raises
\* and nothing in main catches it
ListKnownEvents ==
  /\ pc = "listing"
  /\ \E listed \in BOOLEAN :
       IF listed
       THEN /\ hubspot_events' = GetKnownEvents(store)
            /\ pc' = "seasons"
            /\ UNCHANGED console
       ELSE /\ console' = Append(console, Say("Traceback", "ApiException"))
            /\ pc' = "crashed"
            /\ UNCHANGED hubspot_events
  /\ UNCHANGED <<run, store, frc_season, response, first_events, process_locals,
                 upsert_calls, earlier>>

\* what fetch_first_seasons may return: None when the request or the
\* comprehension raised, else the dict of the current seasons by program code
SeasonResults ==
  { None,
    Some([p \in {"FRC", "FTC"} |-> IF p = "FRC" THEN 2025 ELSE 2024]),
    Some([p \in {"FRC", "FTC"} |-> IF p = "FRC" THEN 2024 ELSE 2023]),
    Some([p \in {"FTC"} |-> 2024]) }

\* main, lines 279-284
FetchFirstSeasons ==
  /\ pc = "seasons"
  /\ \E seasons \in SeasonResults :
       IF seasons = None
       THEN /\ console' = Append(console, Say("Could not fetch current seasons", ""))
            /\ pc' = "aborted"
            /\ UNCHANGED frc_season
       ELSE IF "FRC" \notin DOMAIN seasons.value
       THEN /\ console' = Append(console, Say("Traceback", "KeyError"))
            /\ pc' = "crashed"
            /\ UNCHANGED frc_season
       ELSE /\ frc_season' = seasons.value["FRC"]
            /\ pc' = "fetch"
            /\ UNCHANGED console
  /\ UNCHANGED <<run, store, hubspot_events, response, first_events, process_locals,
                 upsert_calls, earlier>>

\* main, lines 285-288: the request raises, or the index answers with hits
\* that satisfy the query; get_elastic_search_events never returns None, so
\* the branch of line 286 is never taken
FetchEvents(pool, max_batch) ==
  /\ pc = "fetch"
  /\ \/ /\ console' = Append(console, Say("Traceback", "RequestException"))
        /\ pc' = "crashed"
        /\ UNCHANGED <<response, first_events>>
     \/ \E hits \in SeqUpTo({e \in pool : EsQueryMatches(e, frc_season)}, max_batch) :
          LET got == GetElasticSearchEvents(hits) IN
          /\ response' = hits
          /\ IF got.kind = "raise"
             THEN /\ console' = Append(console, Say("Traceback", "KeyError or ValueError"))
                  /\ pc' = "crashed"
                  /\ UNCHANGED first_events
             ELSE /\ first_events' = got.events
                  /\ pc' = "process"
                  /\ UNCHANGED console
  /\ UNCHANGED <<run, store, hubspot_events, frc_season, process_locals,
                 upsert_calls, earlier>>

\* main, lines 290-297, with all of process_events: the plan, then at most
\* one upsert call, which succeeds or raises ApiException
ProcessEvents ==
  /\ pc = "process"
  /\ LET plan == Plan(first_events, hubspot_events, frc_season) IN
     /\ first_events' = plan.first_events
     /\ existing_hubspot_events' = plan.existing_hubspot_events
     /\ events_to_update' = plan.events_to_update
     /\ events_to_create' = plan.events_to_create
     /\ IF ShouldUpsert(plan.all_events)
        THEN \E accepted \in BOOLEAN :
                  /\ upsert_calls' = Append(upsert_calls,
                                            [inputs |-> plan.all_events,
                                             raised |-> ~accepted])
                  /\ IF accepted
                     THEN /\ store' = StoreUpsert(store, plan.all_events)
                          /\ console' = console \o plan.printed
                                          \o << Say("Sync Complete", "") >>
                          /\ pc' = "done"
                     ELSE /\ store' = store
                          /\ IF OnApiException.caught
                             THEN /\ console' = console \o plan.printed
                                        \o OnApiException.printed
                                        \o << Say("Sync Complete", "") >>
                                  /\ pc' = "done"
                             ELSE /\ console' = console \o plan.printed
                                        \o OnApiException.printed
                                  /\ pc' = "crashed"
        ELSE /\ UNCHANGED <<upsert_calls, store>>
             /\ console' = console \o plan.printed \o << Say("Sync Complete", "") >>
             /\ pc' = "done"
  /\ UNCHANGED <<run, hubspot_events, frc_season, response, earlier>>

Next ==
  \/ LoadToken
  \/ ListKnownEvents
  \/ FetchFirstSeasons
  \/ FetchEvents(RawPool, MaxBatch)
  \/ ProcessEvents

Spec == Init /\ [][Next]_vars

\* ------------------------------------------------- two consecutive runs
Ended == pc \in {"done", "aborted", "crashed"}

\* the documents of the index that the two runs draw on
RunsRawPool == {e \in RawPool : MapsCleanly(e)}

\* the marketing events the store may hold before the first of the two runs:
\* those of the pool that carry a season and the regional's external id
RunsDestPool ==
  {t \in DestPool :
     /\ t.external_event_id = "FRC2025ALHU"
     /\ get_custom_property(t.custom_properties, "event_code") # None}

InitRuns == InitWith(InitialStores(RunsDestPool, RunsMaxStore))

\* the job is started again: nothing but the store survives a run
StartSecondRun ==
  /\ Ended
  /\ run = "first"
  /\ run' = "second"
  /\ earlier' = [ran |-> TRUE, pc |-> pc, response |-> response,
                 upsert_calls |-> upsert_calls, store_before |-> hubspot_events,
                 store_after |-> store]
  /\ pc' = "token"
  /\ hubspot_events' = <<>>
  /\ frc_season' = 0
  /\ response' = <<>>
  /\ first_events' = <<>>
  /\ existing_hubspot_events' = <<>>
  /\ events_to_update' = <<>>
  /\ events_to_create' = <<>>
  /\ upsert_calls' = <<>>
  /\ console' = <<>>
  /\ UNCHANGED store

NextRuns ==
  \/ LoadToken
  \/ ListKnownEvents
  \/ FetchFirstSeasons
  \/ FetchEvents(RunsRawPool, RunsMaxBatch)
  \/ ProcessEvents
  \/ StartSecondRun

SpecRuns == InitRuns /\ [][NextRuns]_vars

\* ------------------------------------------------------------ properties
\* the canonical events of the run as get_elastic_search_events returned them,
\* before process_events removed any
Fetched == GetElasticSearchEvents(response).events

Processed == pc = "done"

Elems(seq) == {seq[i] : i \in 1..Len(seq)}

\* how many elements of seq satisfy Test
Count(seq, Test(_)) == Cardinality({i \in 1..Len(seq) : Test(seq[i])})

\* the record carries exactly one event_season_year entry, and it reads year
Tagged(d, year) ==
  /\ d.custom_properties.kind = "list"
  /\ LET items == d.custom_properties.items
         at == {i \in 1..Len(items) : items[i].name = "event_season_year"}
     IN Cardinality(at) = 1 /\ \A i \in at : items[i].value = Str(year)

Kept(d) == d \in Elems(existing_hubspot_events)

UpdatedFrom(d) == \E p \in Elems(events_to_update) : p.objectId = d.object_id

\* the content fields of a payload: all but the object id and the organizer
Content(p) == [k \in DOMAIN p \ {"objectId", "eventOrganizer"} |-> p[k]]

\* C1: once process_events has run with flagship season Y, a listed flagship
\* record tagged Y is among the existing events and one tagged Y-1 is not, a
\* listed non-flagship record tagged Y-1 is among them and one tagged Y is
\* not, and no update payload carries the object id of a record that is not.
C1_SeasonWindow ==
  Processed =>
    \A d \in Elems(hubspot_events) :
      /\ (d.event_type = FRC /\ Tagged(d, frc_season)) => Kept(d)
      /\ (d.event_type = FRC /\ Tagged(d, frc_season - 1)) => ~Kept(d)
      /\ (d.event_type # FRC /\ Tagged(d, frc_season - 1)) => Kept(d)
      /\ (d.event_type # FRC /\ Tagged(d, frc_season)) => ~Kept(d)
      /\ ~Kept(d) => ~UpdatedFrom(d)

\* a run that kept a flagship record of season Y and updated it, and left out
\* a non-flagship record tagged Y although the source held its event
C1_Witness ==
  /\ Processed
  /\ \E d \in Elems(hubspot_events) :
       d.event_type = FRC /\ Tagged(d, frc_season) /\ Kept(d) /\ UpdatedFrom(d)
  /\ \E d \in Elems(hubspot_events) :
       d.event_type # FRC /\ Tagged(d, frc_season) /\ ~Kept(d)

\* the key of a destination record built from its own program code and its
\* season and event code properties, when both properties resolve
DerivedKey(d) ==
  LET season == get_custom_property(d.custom_properties, "event_season_year")
      code == get_custom_property(d.custom_properties, "event_code")
  IN IF season = None \/ code = None THEN None
     ELSE Some(d.event_type \o season.value \o code.value)

FetchedWithId(id) == {i \in 1..Len(Fetched) : Fetched[i].externalEventId = id}

\* the pair (d, the only fetched event with external id `id`) became an
\* update and the event is not also created
PairedOnce(d, id) ==
  \A i \in FetchedWithId(id) :
    /\ \E p \in Elems(events_to_update) :
         p.objectId = d.object_id /\ Content(p) = Content(Fetched[i])
    /\ \A c \in Elems(events_to_create) : c.externalEventId # id

\* C2 as stated: every in-window destination record whose key derived from
\* its custom properties is the identity of exactly one canonical event is
\* paired with that event, and the event is not created as well.
C2_AsStated ==
  Processed =>
    \A d \in Elems(existing_hubspot_events) :
      (/\ DerivedKey(d) # None
       /\ Cardinality(FetchedWithId(DerivedKey(d).value)) = 1)
      => PairedOnce(d, DerivedKey(d).value)

\* d is the first of the in-window records, in listing order, to carry its
\* external id
FirstWithItsId(d) ==
  \A i, j \in 1..Len(existing_hubspot_events) :
    (/\ existing_hubspot_events[j] = d
     /\ existing_hubspot_events[i].external_event_id = d.external_event_id)
    => j <= i

\* C2 amended: every in-window destination record whose stored external id
\* is the externalEventId of exactly one canonical event, and which is the
\* first in-window record of the listing with that external id, is paired
\* with that event, and the event is not created as well.
C2_PairedByExternalId ==
  Processed =>
    \A d \in Elems(existing_hubspot_events) :
      (/\ Cardinality(FetchedWithId(d.external_event_id)) = 1
       /\ FirstWithItsId(d))
      => PairedOnce(d, d.external_event_id)

\* a run that paired a record with the one event carrying its external id
C2_Witness ==
  /\ Processed
  /\ \E d \in Elems(existing_hubspot_events) :
       /\ Cardinality(FetchedWithId(d.external_event_id)) = 1
       /\ FirstWithItsId(d)
       /\ UpdatedFrom(d)
  /\ events_to_create # <<>>

Ambiguous(d) == Cardinality(FetchedWithId(d.external_event_id)) > 1

TooMany(id) == [msg |-> "Too many matches found for", arg |-> id]

\* C3: when several canonical events carry the external id of an in-window
\* record, the run prints the ambiguity once per such record, builds no
\* update for the record, creates every one of those events, and ends with
\* Sync Complete.
C3_AmbiguousMatch ==
  /\ Processed =>
       \A d \in Elems(existing_hubspot_events) :
         Ambiguous(d) =>
           /\ LET said(line) == line = TooMany(d.external_event_id)
                  alike(x) == x.external_event_id = d.external_event_id
              IN Count(console, said) = Count(existing_hubspot_events, alike)
           /\ ~UpdatedFrom(d)
           /\ \A i \in FetchedWithId(d.external_event_id) :
                LET this(c) == c = Fetched[i]
                IN Count(events_to_create, this) = Count(Fetched, this)
           /\ console[Len(console)] = [msg |-> "Sync Complete", arg |-> ""]
  /\ (\E i \in 1..Len(console) : console[i].msg = "Too many matches found for")
       => pc = "done"

\* a run that met an ambiguous record
C3_Witness ==
  /\ Processed
  /\ \E d \in Elems(existing_hubspot_events) : Ambiguous(d)
  /\ Len(events_to_create) >= 2

\* C4: every update payload is the canonical event carrying its external id
\* in every content field, with the object id and the organizer of the
\* in-window record it was paired with; a create payload has no object id,
\* and every object id submitted is one the listing returned.
C4_UpdatePayload ==
  Processed =>
    /\ \A p \in Elems(events_to_update) :
         \E d \in Elems(existing_hubspot_events) :
           \E e \in Elems(Fetched) :
             /\ d.external_event_id = e.externalEventId
             /\ DOMAIN p = DOMAIN e \cup {"objectId"}
             /\ Content(p) = Content(e)
             /\ p.objectId = d.object_id
             /\ p.eventOrganizer = d.event_organizer
    /\ \A c \in Elems(events_to_create) : "objectId" \notin DOMAIN c
    /\ \A i \in 1..Len(upsert_calls) :
         \A p \in Elems(upsert_calls[i].inputs) :
           "objectId" \in DOMAIN p =>
             \E d \in Elems(hubspot_events) : d.object_id = p.objectId

\* a run that built an update whose organizer is not the source's constant
C4_Witness ==
  /\ Processed
  /\ \E p \in Elems(events_to_update) :
       \E e \in Elems(Fetched) :
         /\ e.externalEventId = p.externalEventId
         /\ p.eventOrganizer # e.eventOrganizer
  /\ events_to_create # <<>>

AllEvents == events_to_update \o events_to_create

\* C6: an upsert call never carries an empty list, and a run whose updates
\* and creates are both empty makes no upsert call.
C6_NoEmptyBatch ==
  /\ \A i \in 1..Len(upsert_calls) : Len(upsert_calls[i].inputs) > 0
  /\ (Processed /\ AllEvents = <<>>) => upsert_calls = <<>>

\* a run over a listing that is not empty which ended with nothing to submit
C6_Witness ==
  /\ Processed
  /\ hubspot_events # <<>>
  /\ AllEvents = <<>>
  /\ upsert_calls = <<>>

\* the hits of the response that have their times, mapped
WellFormed ==
  LET good == SelectSeq(response, MapsCleanly)
  IN [i \in 1..Len(good) |-> MapEvent(good[i])]

\* C7 as stated: whatever hits the response holds, the run goes on, and the
\* canonical list is the well-formed hits, mapped, in their order.
C7_AsStated ==
  response # <<>> =>
    /\ pc # "crashed"
    /\ pc = "process" => first_events = WellFormed

Report(line) ==
  line.msg \in {"Could not retrieve HubSpot API token",
                "Could not fetch current seasons",
                "Unable to find events for the"}

\* C8 as stated: a run ends in DONE or, after a failed step, in ABORT with a
\* report as its last line and no upsert call; an upsert call is made only
\* when the listing, the season and the source events were obtained.
C8_AsStated ==
  /\ pc \in {"token", "listing", "seasons", "fetch", "process", "done", "aborted"}
  /\ pc = "aborted" => (upsert_calls = <<>> /\ Report(console[Len(console)]))
  /\ upsert_calls # <<>> => (pc = "done" /\ frc_season # 0)

\* C9: a run makes at most one upsert call, and when that call raises, the
\* exception is printed, the store is as the listing found it, and the run
\* ends with Sync Complete.
C9_UpsertFailure ==
  /\ Len(upsert_calls) <= 1
  /\ \A i \in 1..Len(upsert_calls) :
       upsert_calls[i].raised =>
         /\ pc = "done"
         /\ Len(console) >= 2
         /\ console[Len(console) - 1].msg = "Exception when calling batch_api->update"
         /\ console[Len(console)] = [msg |-> "Sync Complete", arg |-> ""]
         /\ store = hubspot_events

\* a run whose upsert call raised
C9_Witness ==
  /\ Processed
  /\ Len(upsert_calls) = 1
  /\ upsert_calls[1].raised

\* C10: the payloads of a run are its fetched events, each once: as many
\* payloads as events, every content as often among the payloads as among
\* the events, and the whole list is what the one upsert call carries.
C10_Conservation ==
  Processed =>
    /\ Len(AllEvents) = Len(Fetched)
    /\ \A e \in Elems(Fetched) \cup Elems(AllEvents) :
         LET same(x) == Content(x) = Content(e)
         IN Count(AllEvents, same) = Count(Fetched, same)
    /\ AllEvents # <<>> =>
         (Len(upsert_calls) = 1 /\ upsert_calls[1].inputs = AllEvents)

\* a run over two in-window records sharing one external id, which updated
\* one of them from an event that was not the first of the fetched list
C10_Witness ==
  /\ Processed
  /\ \E i, j \in 1..Len(existing_hubspot_events) :
       /\ i < j
       /\ existing_hubspot_events[i].external_event_id
            = existing_hubspot_events[j].external_event_id
  /\ \E p \in Elems(events_to_update) :
       p.externalEventId # Fetched[1].externalEventId
  /\ events_to_create # <<>>

\* --- two consecutive runs
BothRan == run = "second" /\ Processed /\ earlier.pc = "done"

\* the records the first run's upsert added to the store
NewRecords ==
  {earlier.store_after[i] :
     i \in (Len(earlier.store_before) + 1)..Len(earlier.store_after)}

\* the create payloads the first run submitted
FirstRunCreates ==
  {p \in UNION {Elems(earlier.upsert_calls[i].inputs) :
                  i \in 1..Len(earlier.upsert_calls)} :
     "objectId" \notin DOMAIN p}

FirstRunFetched == GetElasticSearchEvents(earlier.response).events

\* r is the record the store made of create payload e
CreatedFor(r, e) == r = Stored(e, r.object_id)

\* the second run updates r from e and does not create e again
Converged(r, e) ==
  /\ \E p \in Elems(events_to_update) :
       p.objectId = r.object_id /\ Content(p) = Content(e)
  /\ e \notin Elems(events_to_create)

SoleOfItsId(events, e) ==
  LET alike(x) == x.externalEventId = e.externalEventId
  IN Count(events, alike) = 1

\* C5 as stated: a record the first run created for event E, and the same
\* event fetched again by the second run, give an update of that record with
\* E's content in the second run, and no second create.
C5_AsStated ==
  BothRan =>
    \A r \in NewRecords :
      \A e \in FirstRunCreates :
        (CreatedFor(r, e) /\ e \in Elems(Fetched)) => Converged(r, e)

\* C5 amended: the same, for an event E that is the only one with its
\* (program, season, event code) triple among the events the first run
\* fetched and among the events the second run fetched.
C5_ConvergesWhenUnique ==
  BothRan =>
    \A r \in NewRecords :
      \A e \in FirstRunCreates :
        (/\ CreatedFor(r, e)
         /\ e \in Elems(Fetched)
         /\ SoleOfItsId(FirstRunFetched, e)
         /\ SoleOfItsId(Fetched, e))
        => Converged(r, e)

\* two runs, the first creating a record for an event the second fetched
\* again and turned into an update of that record
C5_Witness ==
  /\ BothRan
  /\ \E r \in NewRecords :
       \E e \in FirstRunCreates :
         /\ CreatedFor(r, e)
         /\ e \in Elems(Fetched)
         /\ SoleOfItsId(FirstRunFetched, e)
         /\ SoleOfItsId(Fetched, e)
         /\ Converged(r, e)
  /\ Len(Fetched) = 2

====
